---- MODULE Spec2Model ----
(***************************************************************************)
(* A model of src/util.py: the Paypack gateway client.  The module defines *)
(* authorize, cashin, cashout and find_transaction, and its last two lines *)
(* call find_transaction on a literal reference and print the result.      *)
(*                                                                         *)
(* Python is single-threaded here, so the model is one sequential control  *)
(* flow: the module body (mpc), and inside it at most one invocation of    *)
(* one of the four functions (fn, pc and the locals of its frame).  The    *)
(* payment provider and the transport are the environment: every call of   *)
(* requests.request either raises or yields a response with some status    *)
(* code and some body text.                                                *)
(***************************************************************************)
EXTENDS Integers, Sequences, FiniteSets, TLC

\* Number of invocations the importing caller makes after the module loaded.
MaxCalls == 2

----------------------------------------------------------------------------
(* Python values *)

Unbound == [t |-> "unbound"]
PyNone == [t |-> "none"]
PyObject == [t |-> "object"]
PyList == [t |-> "list"]

PyStr(s) == [t |-> "str", s |-> s]

PyInt(i) == [t |-> "int", i |-> i]

PyDict(items) == [t |-> "dict", o |-> items]

\* key in d, for a dict d
HasKey(d, k) == \E p \in d.o : p[1] = k

\* d[k], for a dict d holding k
Lookup(d, k) == (CHOOSE p \in d.o : p[1] = k)[2]

\* str(v), as an f-string formats a scalar
Str(v) ==
    CASE v.t = "str" -> v.s
      [] v.t = "int" -> ToString(v.i)
      [] v.t = "none" -> "None"

\* json.dumps of a scalar; anything else here is not JSON serializable
Serializable(v) == v.t \in {"str", "int", "none"}

DumpsValue(v) ==
    CASE v.t = "str" -> "\"" \o v.s \o "\""
      [] v.t = "int" -> ToString(v.i)
      [] v.t = "none" -> "null"

----------------------------------------------------------------------------
(* Module-level constants of util.py *)

AppId == "17eabc50-c552-11f0-9c11-deadd43720af"
AppSecret == "9491032d457e34ef97a330564d321fd6da39a3ee5e6b4b0d3255bfef95601890afd80709"
Timeout == 50000
Host == "https://payments.paypack.rw"
AuthorizePath == "/api/auth/agents/authorize"
CashinPath == "/api/transactions/cashin"
CashoutPath == "/api/transactions/cashout"
FindPath == "/api/transactions/find/"
DemoRef == "dbed4dbb-f1bd-433d-ba57-e383c5faa96b"

----------------------------------------------------------------------------
(* The environment: what the provider and the transport can answer *)

StatusCodes == {200, 500}

ValidTexts ==
    { "{\"access\": \"tokA\"}", "{\"access\": \"tokB\"}", "{\"access\": null}",
      "{\"access\": \"\"}", "{\"access\": 7}",
      "{\"message\": \"transaction not found\"}",
      "{\"ref\": \"tx-1\", \"amount\": 100}", "{}",
      "[]", "\"access\"", "7", "null" }

InvalidTexts == { "", "<html>" }

BodyTexts == ValidTexts \cup InvalidTexts

Responses == [status_code : StatusCodes, text : BodyTexts]

\* json.loads on the body texts above
Loads(text) ==
    CASE text = "{\"access\": \"tokA\"}" -> PyDict({<<"access", PyStr("tokA")>>})
      [] text = "{\"access\": \"tokB\"}" -> PyDict({<<"access", PyStr("tokB")>>})
      [] text = "{\"access\": null}" -> PyDict({<<"access", PyNone>>})
      [] text = "{\"access\": \"\"}" -> PyDict({<<"access", PyStr("")>>})
      [] text = "{\"access\": 7}" -> PyDict({<<"access", PyInt(7)>>})
      [] text = "{\"message\": \"transaction not found\"}" ->
             PyDict({<<"message", PyStr("transaction not found")>>})
      [] text = "{\"ref\": \"tx-1\", \"amount\": 100}" ->
             PyDict({<<"ref", PyStr("tx-1")>>, <<"amount", PyInt(100)>>})
      [] text = "{}" -> PyDict({})
      [] text = "[]" -> PyList
      [] text = "\"access\"" -> PyStr("access")
      [] text = "7" -> PyInt(7)
      [] text = "null" -> PyNone

\* Inputs the caller passes
Numbers == { PyStr("0788000000") }
Amounts == { PyInt(100), PyObject }
Refs == { PyStr(DemoRef), PyStr("tx-1") }

----------------------------------------------------------------------------
VARIABLES
    app_id, app_secret,   \* module globals
    mpc,                  \* where the module body is: L96, L97, loaded, failed
    calls,                \* invocations made by the importing caller
    fn,                   \* the function being invoked
    number, amount, ref,  \* its arguments
    pc,                   \* where the invocation is
    a_response,           \* authorize's local 'response'
    auth, access_token, url, payload, headers, response,  \* the outer frame's locals
    result,               \* what the invocation handed to its caller
    sent,                 \* the requests the invocation made, in order
    raised,               \* exceptions raised in the invocation
    prev_access           \* the access value the latest earlier invocation obtained

vars == <<app_id, app_secret, mpc, calls, fn, number, amount, ref, pc, a_response,
          auth, access_token, url, payload, headers, response, result, sent,
          raised, prev_access>>

globals == <<app_id, app_secret>>
args == <<fn, number, amount, ref>>
outer == <<auth, access_token, url, payload, headers, response>>

NoResult == [kind |-> "none"]
Return(v) == [kind |-> "return", value |-> v]
Raised(exc) == [kind |-> "raise", exc |-> exc]

Init ==
    /\ app_id = AppId
    /\ app_secret = AppSecret
    /\ mpc = "L96"
    /\ calls = 0
    /\ fn = "none"
    /\ number = Unbound /\ amount = Unbound /\ ref = Unbound
    /\ pc = "idle"
    /\ a_response = Unbound
    /\ auth = Unbound /\ access_token = Unbound /\ url = Unbound
    /\ payload = Unbound /\ headers = Unbound /\ response = Unbound
    /\ result = NoResult
    /\ sent = <<>>
    /\ raised = 0
    /\ prev_access = Unbound

----------------------------------------------------------------------------
(* Requests *)

BaseHeaders ==
    ("Content-Type" :> "application/json") @@ ("Accept" :> "application/json")

\* 'Authorization': f'Bearer {access_token}'
BearerValue(tok) == "Bearer " \o Str(tok)

\* Faulty variant: the token alone, without the 'Bearer ' scheme
BearerHeadersRaw(tok) == BaseHeaders @@ ("Authorization" :> Str(tok))

BearerHeaders(tok) == BaseHeaders @@ ("Authorization" :> BearerValue(tok))

\* requests.request(method, url, headers=headers, data=payload, timeout=50000)
Request(method, u, h, d) ==
    [method |-> method, url |-> u, headers |-> h, data |-> d, timeout |-> Timeout]

\* json.dumps({"client_id": app_id, "client_secret": app_secret})
AuthorizePayload ==
    "{\"client_id\": \"" \o app_id \o "\", \"client_secret\": \"" \o app_secret \o "\"}"

\* Faulty variant: authorize sends an Authorization header too
AuthorizeRequestWithBearer ==
    Request("POST", Host \o AuthorizePath,
            BaseHeaders @@ ("Authorization" :> "Bearer "), PyStr(AuthorizePayload))

AuthorizeRequestOf ==
    Request("POST", Host \o AuthorizePath, BaseHeaders, PyStr(AuthorizePayload))

\* json.dumps({"amount": amount, "number": number})
TransferPayload(am, num) ==
    "{\"amount\": " \o DumpsValue(am) \o ", \"number\": " \o DumpsValue(num) \o "}"

\* Faulty variant: the reference as a query parameter instead of a path segment
FindUrlQuery(r) == PyStr(Host \o "/api/transactions/find?ref=" \o Str(r))

\* f"https://payments.paypack.rw/api/transactions/find/{ref}"
FindUrl(r) == PyStr(Host \o FindPath \o Str(r))

Method(f) == IF f = "find_transaction" THEN "GET" ELSE "POST"

----------------------------------------------------------------------------
(* Control flow *)

\* An exception nobody catches: it ends the invocation at its caller.
Raise(exc) ==
    /\ result' = Raised(exc)
    /\ raised' = raised + 1
    /\ pc' = "done"

\* The access value the invocation that just ended obtained, if it did.
LastObtained ==
    IF access_token # Unbound THEN access_token
    ELSE IF /\ fn = "authorize" /\ result.kind = "return"
            /\ result.value.t = "dict" /\ HasKey(result.value, "access")
         THEN Lookup(result.value, "access")
         ELSE prev_access

\* Entering one of the four functions: a fresh frame.  Each of them starts
\* in authorize's body, which authorize() itself is and the other three call
\* as their first statement.
Enter(f, n, a, r) ==
    /\ fn' = f /\ number' = n /\ amount' = a /\ ref' = r
    /\ pc' = "authorize_request"
    /\ a_response' = Unbound
    /\ auth' = Unbound /\ access_token' = Unbound /\ url' = Unbound
    /\ payload' = Unbound /\ headers' = Unbound /\ response' = Unbound
    /\ result' = NoResult
    /\ sent' = <<>>
    /\ raised' = 0
    /\ prev_access' = LastObtained
    /\ UNCHANGED globals

\* test = find_transaction("dbed4dbb-f1bd-433d-ba57-e383c5faa96b"): the call
ModuleCall ==
    /\ mpc = "L96" /\ pc = "idle"
    /\ Enter("find_transaction", Unbound, Unbound, PyStr(DemoRef))
    /\ UNCHANGED <<mpc, calls>>

\* Faulty variant: the module body catches the failure and goes on
ModuleReturnSwallow ==
    /\ mpc = "L96" /\ pc = "done"
    /\ mpc' = "L97"
    /\ UNCHANGED <<globals, calls, args, pc, a_response, outer, result, sent,
                   raised, prev_access>>

\* ... and its end: 'test' is bound, or the exception ends the import.
ModuleReturn ==
    /\ mpc = "L96" /\ pc = "done"
    /\ mpc' = IF result.kind = "raise" THEN "failed" ELSE "L97"
    /\ UNCHANGED <<globals, calls, args, pc, a_response, outer, result, sent,
                   raised, prev_access>>

\* print(test); the module is then loaded and its functions can be called.
PrintTest ==
    /\ mpc = "L97"
    /\ mpc' = "loaded"
    /\ UNCHANGED <<globals, calls, args, pc, a_response, outer, result, sent,
                   raised, prev_access>>

CallerMay == mpc = "loaded" /\ pc = "done" /\ calls < MaxCalls

CallAuthorize ==
    /\ CallerMay
    /\ Enter("authorize", Unbound, Unbound, Unbound)
    /\ calls' = calls + 1
    /\ UNCHANGED mpc

CallCashin ==
    /\ CallerMay
    /\ \E n \in Numbers, a \in Amounts : Enter("cashin", n, a, Unbound)
    /\ calls' = calls + 1
    /\ UNCHANGED mpc

CallCashout ==
    /\ CallerMay
    /\ \E n \in Numbers, a \in Amounts : Enter("cashout", n, a, Unbound)
    /\ calls' = calls + 1
    /\ UNCHANGED mpc

CallFindTransaction ==
    /\ CallerMay
    /\ \E r \in Refs : Enter("find_transaction", Unbound, Unbound, r)
    /\ calls' = calls + 1
    /\ UNCHANGED mpc

\* Faulty variant: a transport failure of the authorize call is retried once
AuthorizeRequestRetry ==
    /\ pc = "authorize_request"
    /\ sent' = Append(sent, AuthorizeRequestOf)
    /\ \/ /\ Len(sent) = 0
          /\ UNCHANGED <<a_response, pc, result, raised>>
       \/ /\ Raise("ConnectionError")
          /\ UNCHANGED a_response
       \/ /\ \E r \in Responses : a_response' = r
          /\ pc' = "authorize_json"
          /\ UNCHANGED <<result, raised>>
    /\ UNCHANGED <<globals, mpc, calls, args, outer, prev_access>>

\* authorize, up to and including requests.request(...)
AuthorizeRequest ==
    /\ pc = "authorize_request"
    /\ sent' = Append(sent, AuthorizeRequestOf)
    /\ \/ /\ Raise("ConnectionError")
          /\ UNCHANGED a_response
       \/ /\ \E r \in Responses : a_response' = r
          /\ pc' = "authorize_json"
          /\ UNCHANGED <<result, raised>>
    /\ UNCHANGED <<globals, mpc, calls, args, outer, prev_access>>

\* authorize: return response.json(); in the other three, auth = authorize()
AuthorizeJson ==
    /\ pc = "authorize_json"
    /\ IF a_response.text \notin ValidTexts
       THEN Raise("JSONDecodeError") /\ UNCHANGED auth
       ELSE IF fn = "authorize"
            THEN /\ result' = Return(Loads(a_response.text))
                 /\ pc' = "done"
                 /\ UNCHANGED <<auth, raised>>
            ELSE /\ auth' = Loads(a_response.text)
                 /\ pc' = "get_access"
                 /\ UNCHANGED <<result, raised>>
    /\ UNCHANGED <<globals, mpc, calls, args, a_response, access_token, url,
                   payload, headers, response, sent, prev_access>>

\* Faulty variant: auth.get("access") instead of auth["access"]
GetAccessDefault ==
    /\ pc = "get_access"
    /\ IF auth.t # "dict"
       THEN Raise("TypeError") /\ UNCHANGED access_token
       ELSE /\ access_token' = IF HasKey(auth, "access")
                               THEN Lookup(auth, "access") ELSE PyNone
            /\ pc' = "build"
            /\ UNCHANGED <<result, raised>>
    /\ UNCHANGED <<globals, mpc, calls, args, a_response, auth, url, payload,
                   headers, response, sent, prev_access>>

\* Faulty variant: a token obtained by an earlier invocation is used again
GetAccessCached ==
    /\ pc = "get_access"
    /\ IF auth.t # "dict"
       THEN Raise("TypeError") /\ UNCHANGED access_token
       ELSE IF ~HasKey(auth, "access")
            THEN Raise("KeyError") /\ UNCHANGED access_token
            ELSE /\ access_token' = IF prev_access # Unbound
                                    THEN prev_access ELSE Lookup(auth, "access")
                 /\ pc' = "build"
                 /\ UNCHANGED <<result, raised>>
    /\ UNCHANGED <<globals, mpc, calls, args, a_response, auth, url, payload,
                   headers, response, sent, prev_access>>

\* Faulty variant: an empty or null access value is refused
GetAccessTruthy ==
    /\ pc = "get_access"
    /\ IF auth.t # "dict"
       THEN Raise("TypeError") /\ UNCHANGED access_token
       ELSE IF ~HasKey(auth, "access")
            THEN Raise("KeyError") /\ UNCHANGED access_token
            ELSE IF Lookup(auth, "access") \in {PyNone, PyStr("")}
                 THEN Raise("ValueError") /\ UNCHANGED access_token
                 ELSE /\ access_token' = Lookup(auth, "access")
                      /\ pc' = "build"
                      /\ UNCHANGED <<result, raised>>
    /\ UNCHANGED <<globals, mpc, calls, args, a_response, auth, url, payload,
                   headers, response, sent, prev_access>>

\* access_token = auth["access"]
GetAccess ==
    /\ pc = "get_access"
    /\ IF auth.t # "dict"
       THEN Raise("TypeError") /\ UNCHANGED access_token
       ELSE IF ~HasKey(auth, "access")
            THEN Raise("KeyError") /\ UNCHANGED access_token
            ELSE /\ access_token' = Lookup(auth, "access")
                 /\ pc' = "build"
                 /\ UNCHANGED <<result, raised>>
    /\ UNCHANGED <<globals, mpc, calls, args, a_response, auth, url, payload,
                   headers, response, sent, prev_access>>

\* Faulty variant: json.dumps(..., default=str), which serializes anything
TransferBuildLenient(path) ==
    /\ url' = PyStr(Host \o path)
    /\ payload' = IF Serializable(amount) /\ Serializable(number)
                  THEN PyStr(TransferPayload(amount, number))
                  ELSE PyStr("{\"amount\": \"object\", \"number\": \"object\"}")
    /\ headers' = BearerHeaders(access_token)
    /\ pc' = "request"
    /\ UNCHANGED <<result, raised>>

\* url, payload and headers of cashin and cashout
TransferBuild(path) ==
    /\ url' = PyStr(Host \o path)
    /\ IF Serializable(amount) /\ Serializable(number)
       THEN /\ payload' = PyStr(TransferPayload(amount, number))
            /\ headers' = BearerHeaders(access_token)
            /\ pc' = "request"
            /\ UNCHANGED <<result, raised>>
       ELSE /\ Raise("TypeError")
            /\ UNCHANGED <<payload, headers>>

CashinBuild == fn = "cashin" /\ TransferBuild(CashinPath)

CashoutBuild == fn = "cashout" /\ TransferBuild(CashoutPath)

\* url, payload and headers of find_transaction
FindTransactionBuild ==
    /\ fn = "find_transaction"
    /\ url' = FindUrl(ref)
    /\ payload' = PyDict({})
    /\ headers' = BearerHeaders(access_token)
    /\ pc' = "request"
    /\ UNCHANGED <<result, raised>>

Build ==
    /\ pc = "build"
    /\ CashinBuild \/ CashoutBuild \/ FindTransactionBuild
    /\ UNCHANGED <<globals, mpc, calls, args, a_response, auth, access_token,
                   response, sent, prev_access>>

\* response = requests.request(...) to the target endpoint
TargetRequest ==
    /\ pc = "request"
    /\ sent' = Append(sent, Request(Method(fn), url.s, headers, payload))
    /\ \/ /\ Raise("ConnectionError")
          /\ UNCHANGED response
       \/ /\ \E r \in Responses : response' = r
          /\ pc' = "json"
          /\ UNCHANGED <<result, raised>>
    /\ UNCHANGED <<globals, mpc, calls, args, a_response, auth, access_token,
                   url, payload, headers, prev_access>>

\* Faulty variant: response.raise_for_status() before decoding
TargetJsonRaiseForStatus ==
    /\ pc = "json"
    /\ IF response.status_code >= 400
       THEN Raise("HTTPError")
       ELSE IF response.text \notin ValidTexts
            THEN Raise("JSONDecodeError")
            ELSE /\ result' = Return(Loads(response.text))
                 /\ pc' = "done"
                 /\ UNCHANGED raised
    /\ UNCHANGED <<globals, mpc, calls, args, a_response, outer, sent,
                   prev_access>>

\* return response.json()
TargetJson ==
    /\ pc = "json"
    /\ IF response.text \notin ValidTexts
       THEN Raise("JSONDecodeError")
       ELSE /\ result' = Return(Loads(response.text))
            /\ pc' = "done"
            /\ UNCHANGED raised
    /\ UNCHANGED <<globals, mpc, calls, args, a_response, outer, sent,
                   prev_access>>

Next ==
    \/ ModuleCall \/ ModuleReturn \/ PrintTest
    \/ CallAuthorize \/ CallCashin \/ CallCashout \/ CallFindTransaction
    \/ AuthorizeRequest \/ AuthorizeJson \/ GetAccess \/ Build
    \/ TargetRequest \/ TargetJson

Spec == Init /\ [][Next]_vars

----------------------------------------------------------------------------
(* What the properties below speak of *)

Wrapper == fn \in {"cashin", "cashout", "find_transaction"}

Transfer == fn \in {"cashin", "cashout"}

Done == pc = "done"

IsAuthorizePost(r) ==
    /\ r.method = "POST"
    /\ r.url = "https://payments.paypack.rw/api/auth/agents/authorize"

\* The target endpoint of the function being invoked
TargetUrlOf(f) ==
    CASE f = "cashin" -> "https://payments.paypack.rw/api/transactions/cashin"
      [] f = "cashout" -> "https://payments.paypack.rw/api/transactions/cashout"
      [] f = "find_transaction" ->
             "https://payments.paypack.rw/api/transactions/find/" \o ref.s

\* The authorize call of this invocation got a response that decodes
AuthorizeDecoded == a_response # Unbound /\ a_response.text \in ValidTexts

\* ... to an object that has the key 'access'
AuthorizeHasAccess ==
    /\ AuthorizeDecoded
    /\ Loads(a_response.text).t = "dict"
    /\ HasKey(Loads(a_response.text), "access")

OwnAccess == Lookup(Loads(a_response.text), "access")

HasBearer(r) == "Authorization" \in DOMAIN r.headers

----------------------------------------------------------------------------
(* C1: a cashin or cashout in which both network calls got a response and  *)
(* the authorize response is an object with 'access' made exactly two      *)
(* requests: the POST to /api/auth/agents/authorize, then the POST to its  *)
(* own endpoint with Authorization 'Bearer ' + the access value of the     *)
(* first request's response.                                               *)
C1_TwoCallsInOrder ==
    (Transfer /\ Done /\ AuthorizeHasAccess /\ response # Unbound) =>
        /\ Len(sent) = 2
        /\ IsAuthorizePost(sent[1])
        /\ sent[2].method = "POST"
        /\ sent[2].url = TargetUrlOf(fn)
        /\ HasBearer(sent[2])
        /\ sent[2].headers["Authorization"] = "Bearer " \o Str(OwnAccess)

C1_Witness ==
    /\ fn = "cashin" /\ Done /\ response # Unbound
    /\ a_response # Unbound
    /\ a_response.text = "{\"access\": \"tokB\"}"
    /\ Len(sent) = 2
    /\ sent[2].headers["Authorization"] = "Bearer tokB"
    /\ result.kind = "return"

(* C2: when the decoded authorize response has no 'access' field, cashin,  *)
(* cashout and find_transaction end in a failure at the caller and the     *)
(* only request made is the one to the authorization endpoint.             *)
C2_NoAccessNoTarget ==
    (Wrapper /\ AuthorizeDecoded /\ ~AuthorizeHasAccess) =>
        /\ Len(sent) = 1
        /\ IsAuthorizePost(sent[1])
        /\ response = Unbound
        /\ pc \in {"authorize_json", "get_access", "done"}
        /\ Done => result.kind = "raise"

C2_Witness ==
    /\ fn = "cashout" /\ Done
    /\ a_response # Unbound
    /\ a_response.text = "{\"message\": \"transaction not found\"}"
    /\ result = Raised("KeyError")
    /\ Len(sent) = 1

(* C3: every run of authorize's body sends exactly one request, a POST to  *)
(* /api/auth/agents/authorize with body {client_id, client_secret} of the  *)
(* embedded identifier and secret and no Authorization header; when it     *)
(* succeeds, what it returns is the decoded body, whatever JSON it is.     *)
C3_AuthorizeOneRequest ==
    /\ Cardinality({i \in DOMAIN sent : IsAuthorizePost(sent[i])}) <= 1
    /\ pc \notin {"idle", "authorize_request"} =>
        /\ Len(sent) >= 1
        /\ sent[1].method = "POST"
        /\ sent[1].url = "https://payments.paypack.rw/api/auth/agents/authorize"
        /\ sent[1].data = PyStr("{\"client_id\": \"17eabc50-c552-11f0-9c11-deadd43720af\", \"client_secret\": \"9491032d457e34ef97a330564d321fd6da39a3ee5e6b4b0d3255bfef95601890afd80709\"}")
        /\ ~HasBearer(sent[1])
        /\ fn = "authorize" => Len(sent) = 1
    /\ (fn = "authorize" /\ Done /\ AuthorizeDecoded) =>
        result = Return(Loads(a_response.text))
    /\ (Wrapper /\ AuthorizeDecoded /\ pc # "authorize_json") =>
        auth = Loads(a_response.text)

C3_Witness ==
    /\ fn = "authorize" /\ Done
    /\ a_response # Unbound
    /\ a_response.text = "[]"
    /\ result = Return(PyList)
    /\ Len(sent) = 1

(* C4: find_transaction(ref) issues, after its authorize call, one GET to  *)
(* exactly /api/transactions/find/ + ref and returns the decoded body of   *)
(* that GET unchanged, for a found transaction and for a not-found message *)
(* alike, never as an error.                                               *)
C4_FindPassThrough ==
    (fn = "find_transaction") =>
        /\ Len(sent) <= 2
        /\ Len(sent) = 2 =>
            /\ IsAuthorizePost(sent[1])
            /\ sent[2].method = "GET"
            /\ sent[2].url =
                   "https://payments.paypack.rw/api/transactions/find/" \o ref.s
            /\ calls = 0 => sent[2].url =
                   "https://payments.paypack.rw/api/transactions/find/dbed4dbb-f1bd-433d-ba57-e383c5faa96b"
        /\ (Done /\ response # Unbound /\ response.text \in ValidTexts) =>
            /\ result = Return(Loads(response.text))
            /\ raised = 0

C4_Witness ==
    /\ fn = "find_transaction" /\ Done /\ ref = PyStr("tx-1")
    /\ Len(sent) = 2
    /\ sent[2].url = "https://payments.paypack.rw/api/transactions/find/tx-1"
    /\ response # Unbound
    /\ response.text = "{\"message\": \"transaction not found\"}"
    /\ result = Return(PyDict({<<"message", PyStr("transaction not found")>>}))

(* C5: no retries: an invocation requests each endpoint at most once, and  *)
(* a failed network call (the transport raising, or a body that does not   *)
(* decode) ends it in exactly one failure at the caller, the failed        *)
(* request being the last one it made.                                     *)
C5_NoRetry ==
    /\ \A i, j \in DOMAIN sent : sent[i].url = sent[j].url => i = j
    /\ Len(sent) <= 2
    /\ raised <= 1
    /\ raised = 1 <=> result.kind = "raise"
    /\ result.kind = "raise" => Done
    /\ (Done /\ result = Raised("ConnectionError")) =>
        \/ Len(sent) = 1 /\ a_response = Unbound
        \/ Len(sent) = 2 /\ response = Unbound
    /\ (Done /\ result = Raised("JSONDecodeError")) =>
        \/ Len(sent) = 1 /\ a_response.text \in InvalidTexts
        \/ Len(sent) = 2 /\ response.text \in InvalidTexts
    /\ (a_response # Unbound /\ a_response.text \in InvalidTexts
            /\ pc # "authorize_json") =>
        Done /\ result = Raised("JSONDecodeError") /\ Len(sent) = 1

C5_Witness ==
    /\ fn = "cashin" /\ Done
    /\ Len(sent) = 1 /\ a_response = Unbound
    /\ result = Raised("ConnectionError")
    /\ raised = 1

(* C6: the status code of a response never influences the outcome: what   *)
(* an invocation returns or raises is determined by the body texts alone,  *)
(* so a 4xx/5xx answer with a JSON body is decoded and returned as a       *)
(* normal value, and a 4xx/5xx authorize answer is used like any other.    *)
C6_StatusIgnored ==
    /\ (Done /\ response # Unbound) =>
        result = IF response.text \in ValidTexts
                 THEN Return(Loads(response.text))
                 ELSE Raised("JSONDecodeError")
    /\ (fn = "authorize" /\ Done /\ a_response # Unbound) =>
        result = IF a_response.text \in ValidTexts
                 THEN Return(Loads(a_response.text))
                 ELSE Raised("JSONDecodeError")
    /\ (Wrapper /\ AuthorizeHasAccess
            /\ pc \notin {"authorize_json", "get_access"}) =>
        access_token = OwnAccess

C6_Witness ==
    /\ fn = "cashout" /\ Done
    /\ a_response # Unbound /\ a_response.status_code = 500
    /\ response # Unbound /\ response.status_code = 500
    /\ response.text = "{\"message\": \"transaction not found\"}"
    /\ result = Return(PyDict({<<"message", PyStr("transaction not found")>>}))

(* C7 as stated: the payload is built before the authorization request is  *)
(* sent, and an invocation whose payload cannot be built fails without any *)
(* outbound request.                                                       *)
C7_PayloadBeforeAuthorize ==
    /\ (Wrapper /\ Len(sent) >= 1) => payload # Unbound
    /\ (Transfer /\ Done /\ ~(Serializable(amount) /\ Serializable(number))) =>
        sent = <<>>

(* C7, amended: in cashin, cashout and find_transaction the order is: call *)
(* Authorize, take the access token, build the payload, attach the token   *)
(* as a bearer credential, issue the target request, return the parsed     *)
(* response; so the authorization request is sent before the payload is    *)
(* built, and an invocation whose payload cannot be built fails having     *)
(* made the authorize request and no request to the target endpoint.       *)
C7_AuthorizeBeforePayload ==
    Wrapper =>
        /\ auth # Unbound => (Len(sent) >= 1 /\ IsAuthorizePost(sent[1]))
        /\ access_token # Unbound => auth # Unbound
        /\ payload # Unbound => access_token # Unbound
        /\ headers # Unbound =>
            /\ payload # Unbound
            /\ headers["Authorization"] = "Bearer " \o Str(access_token)
        /\ Len(sent) = 2 =>
            /\ headers # Unbound
            /\ sent[2].headers = headers
            /\ sent[2].data = payload
        /\ response # Unbound => Len(sent) = 2
        /\ result.kind = "return" =>
            (response # Unbound /\ result.value = Loads(response.text))
        /\ (Transfer /\ Done /\ ~(Serializable(amount) /\ Serializable(number))) =>
            /\ result.kind = "raise"
            /\ Len(sent) = 1
            /\ IsAuthorizePost(sent[1])
            /\ payload = Unbound
            /\ access_token # Unbound => result = Raised("TypeError")

C7_Witness ==
    /\ fn = "cashin" /\ Done /\ amount = PyObject
    /\ access_token = PyStr("tokA")
    /\ payload = Unbound
    /\ Len(sent) = 1 /\ IsAuthorizePost(sent[1])
    /\ result = Raised("TypeError")

(* C8: invocations keep no state: every invocation of cashin, cashout and  *)
(* find_transaction makes its own authorize request first, the bearer      *)
(* token it sends is the one its own authorize request returned, never one *)
(* an earlier invocation obtained, and app_id and app_secret never change. *)
C8_Independent ==
    /\ app_id = "17eabc50-c552-11f0-9c11-deadd43720af"
    /\ app_secret = "9491032d457e34ef97a330564d321fd6da39a3ee5e6b4b0d3255bfef95601890afd80709"
    /\ (Wrapper /\ pc # "authorize_request") =>
        (Len(sent) >= 1 /\ IsAuthorizePost(sent[1]))
    /\ (Wrapper /\ Len(sent) = 2) =>
        /\ AuthorizeHasAccess
        /\ ~IsAuthorizePost(sent[2])
        /\ sent[2].headers["Authorization"] = "Bearer " \o Str(OwnAccess)

C8_Witness ==
    /\ calls = 2 /\ fn = "find_transaction"
    /\ prev_access = PyStr("tokA")
    /\ a_response # Unbound
    /\ a_response.text = "{\"access\": \"tokB\"}"
    /\ Len(sent) = 2
    /\ sent[2].headers["Authorization"] = "Bearer tokB"

(* C9: loading the module runs the demonstration lookup: no caller invokes *)
(* any of the four functions before the module body has made the authorize *)
(* POST and then the GET /api/transactions/find/dbed4dbb-..., and when one *)
(* of them fails, or the authorize response has no 'access' field, loading *)
(* ends in that failure and none of the four functions can be invoked.     *)
C9_LoadRunsLookup ==
    /\ calls > 0 => mpc = "loaded"
    /\ (mpc \in {"L97", "loaded"} /\ calls = 0) =>
        /\ fn = "find_transaction" /\ ref = PyStr(DemoRef) /\ Done
        /\ Len(sent) = 2
        /\ IsAuthorizePost(sent[1])
        /\ sent[2].method = "GET"
        /\ sent[2].url =
               "https://payments.paypack.rw/api/transactions/find/dbed4dbb-f1bd-433d-ba57-e383c5faa96b"
        /\ AuthorizeHasAccess
        /\ response # Unbound /\ response.text \in ValidTexts
        /\ result.kind = "return"
    /\ mpc = "failed" =>
        /\ calls = 0 /\ Done /\ result.kind = "raise"
        /\ ~ENABLED (CallAuthorize \/ CallCashin \/ CallCashout
                        \/ CallFindTransaction)
    /\ mpc # "loaded" =>
        ~ENABLED (CallAuthorize \/ CallCashin \/ CallCashout
                     \/ CallFindTransaction)

C9_Witness ==
    /\ mpc = "failed"
    /\ a_response # Unbound
    /\ a_response.text = "{}"
    /\ result = Raised("KeyError")
    /\ Len(sent) = 1

(* C10 as stated: the target request is sent if and only if the authorize  *)
(* call succeeded and its decoded body is an object with the key 'access'. *)
C10_TargetIffAccess ==
    (Wrapper /\ Done) => (Len(sent) = 2 <=> AuthorizeHasAccess)

PayloadBuildable == Transfer => (Serializable(amount) /\ Serializable(number))

(* C10, amended: the target request is sent if and only if the authorize   *)
(* call succeeded, its decoded body is an object containing the key        *)
(* 'access', and (in cashin and cashout) amount and number serialize to    *)
(* JSON; the value of 'access' is not checked, so a null, empty or         *)
(* non-string value, also in a 4xx/5xx authorize answer, is sent in its    *)
(* text form after 'Bearer ', whereas an authorize body that is valid JSON *)
(* but not an object ends the invocation in a failure before the target    *)
(* request.                                                                *)
C10_TargetIffAccessAndPayload ==
    (Wrapper /\ Done) =>
        /\ Len(sent) = 2 <=> (AuthorizeHasAccess /\ PayloadBuildable)
        /\ Len(sent) = 2 =>
            sent[2].headers["Authorization"] =
                CASE OwnAccess = PyNone -> "Bearer None"
                  [] OwnAccess = PyStr("") -> "Bearer "
                  [] OwnAccess = PyInt(7) -> "Bearer 7"
                  [] OTHER -> "Bearer " \o OwnAccess.s
        /\ (AuthorizeDecoded /\ Loads(a_response.text).t # "dict") =>
            (result = Raised("TypeError") /\ Len(sent) = 1)

C10_Witness ==
    /\ fn = "find_transaction" /\ Done
    /\ a_response # Unbound
    /\ a_response.status_code = 500
    /\ a_response.text = "{\"access\": null}"
    /\ Len(sent) = 2
    /\ sent[2].headers["Authorization"] = "Bearer None"

====
